---- MODULE Spec2Model ----
(***************************************************************************)
(* Failover reverse proxy of The Third Voice front end:                    *)
(* frontend/src/app/api/proxy/[...path]/route.ts.                          *)
(*                                                                         *)
(* The module-level health cache (isPrimaryHealthy, lastChecked,           *)
(* backendSince, consecutiveFailures) is shared by every request handled   *)
(* in the same edge instance.  JavaScript runs each handler to its next    *)
(* await without interruption, so one action of this model is one such     *)
(* run-to-await segment of a handler; requests interleave at the awaits    *)
(* on the network (health probe, body read, upstream fetch, backoff sleep).*)
(***************************************************************************)
EXTENDS Integers, Sequences, FiniteSets, Bags, TLC

\* ---------------------------------------------------------------- constants
PRIMARY == "https://api.thethirdvoice.ai"
SECONDARY == "https://the-third-voice-mvp.onrender.com"

HEALTH_CHECK_INTERVAL == 30 * 1000
REQUEST_TIMEOUT == 30 * 1000
HEALTH_CHECK_TIMEOUT == 5 * 1000
MAX_RETRIES == 2

\* ------------------------------------------------------------------- bounds
\* The clock stops advancing once it would pass StartTime + MaxElapsed.
MaxElapsed == 35000

\* The requests that may be in progress at the same time.
Procs == {1, 2}

\* Date.now() when the module is loaded.  lastChecked starts at 0, and any
\* real Date.now() is more than HEALTH_CHECK_INTERVAL past the epoch.
StartTime == HEALTH_CHECK_INTERVAL

\* Amounts by which the clock advances between events.
TickSteps == {HEALTH_CHECK_TIMEOUT, HEALTH_CHECK_INTERVAL}

Methods == {"GET", "POST", "PUT", "PATCH", "DELETE"}

\* ctx.params.path of the inbound request.
Paths == {<<"status">>, <<"api", "messages">>, <<"status", "x">>}

\* What an upstream answers: a status, the kind of its content-type header,
\* and whether its body parses as JSON.
UpstreamStatuses == {200, 404, 503}
UpstreamResponses ==
  { [status |-> s, ctype |-> c, parses |-> v] :
      s \in UpstreamStatuses,
      c \in {"json", "text"}, v \in BOOLEAN } \
  { r \in [status : UpstreamStatuses, ctype : {"text"}, parses : {TRUE}] : TRUE }

\* Statuses the primary's /health may answer.
ProbeStatuses == {200, 304, 503}

\* Inbound request bodies, by declared content type and well-formedness.
Bodies == {"json", "badjson", "text"}

VARIABLES
  now,                  \* Date.now()
  isPrimaryHealthy,     \* route.ts:23
  lastChecked,          \* route.ts:24
  backendSince,         \* route.ts:25
  consecutiveFailures,  \* route.ts:26
  req,                  \* per in-flight request: position and locals
  ev,                   \* what the last step did
  out,                  \* the response returned to the caller by the last step
  winVals,              \* booleans returned from the cache since the last probe or override
  run,                  \* kind and number of failed probes since the last healthy state
  reachable,            \* the origins that answer: "any", or the only one that does
  call,                 \* a call of a pure helper: its arguments and its result
  lastSim,              \* Date.now() of the last simulateDown request, 0 when none
  currentBackendIndex,  \* api.ts:20, the field of the browser's ThirdVoiceAPI
  calls                 \* the calls of _fetchWithFallback: position and locals

client == <<currentBackendIndex, calls>>
health == <<isPrimaryHealthy, lastChecked, backendSince, consecutiveFailures>>
vars == <<now, isPrimaryHealthy, lastChecked, backendSince, consecutiveFailures,
          req, ev, out, winVals, run, reachable, call, lastSim,
          currentBackendIndex, calls>>

\* The shared health state as one value.  wroteSince tells whether the code
\* that produced the value executed an assignment to backendSince.
Health ==
  [isPrimaryHealthy |-> isPrimaryHealthy, lastChecked |-> lastChecked,
   backendSince |-> backendSince, consecutiveFailures |-> consecutiveFailures,
   wroteSince |-> FALSE]

SetHealth(h) ==
  /\ isPrimaryHealthy' = h.isPrimaryHealthy
  /\ lastChecked' = h.lastChecked
  /\ backendSince' = h.backendSince
  /\ consecutiveFailures' = h.consecutiveFailures

Min(a, b) == IF a < b THEN a ELSE b

RECURSIVE Pow2(_)
Pow2(n) == IF n = 0 THEN 1 ELSE 2 * Pow2(n - 1)

\* ------------------------------------------------------- checkPrimaryHealth
\* The override without its counter assignment (route.ts:54 left out).
simulateDownKeepsCounter(h, t) ==
  IF h.isPrimaryHealthy
    THEN [h EXCEPT !.isPrimaryHealthy = FALSE, !.backendSince = t,
                   !.wroteSince = TRUE, !.lastChecked = t]
    ELSE [h EXCEPT !.lastChecked = t]

\* route.ts:50-58, the ?simulateDown=true override at time t.
simulateDownOverride(h, t) ==
  IF h.isPrimaryHealthy
    THEN [h EXCEPT !.isPrimaryHealthy = FALSE, !.backendSince = t,
                   !.wroteSince = TRUE, !.consecutiveFailures = 1,
                   !.lastChecked = t]
    ELSE [h EXCEPT !.lastChecked = t]

\* A cache test under which an entry never expires once a check was made.
isCachedForever(t, checked) == checked > 0

\* route.ts:61, the cache test.
isCached(t, checked) == t - checked < HEALTH_CHECK_INTERVAL

\* The health test without response.ok: every status below 400 counts.
newStatusOfBelow400(status) == status < 400

\* route.ts:79, response.ok && response.status < 400
newStatusOf(status) == (200 =< status /\ status =< 299) /\ status < 400

\* The answered probe without the reset of the counter on success
\* (route.ts:83 keeping the counter, route.ts:88 left out).
probeAnsweredNoReset(h, t, status) ==
  LET newStatus == newStatusOf(status)
      h1 == IF newStatus # h.isPrimaryHealthy
              THEN [h EXCEPT !.backendSince = t, !.wroteSince = TRUE,
                             !.consecutiveFailures = h.consecutiveFailures + 1]
              ELSE h
  IN [h1 EXCEPT !.isPrimaryHealthy = newStatus]

\* route.ts:78-88, the probe answered with `status`; t is the `now` the call
\* captured before it awaited.
probeAnswered(h, t, status) ==
  LET newStatus == newStatusOf(status)
      h1 == IF newStatus # h.isPrimaryHealthy
              THEN [h EXCEPT !.backendSince = t, !.wroteSince = TRUE,
                             !.consecutiveFailures =
                                IF newStatus THEN 0 ELSE h.consecutiveFailures + 1]
              ELSE h
      h2 == [h1 EXCEPT !.isPrimaryHealthy = newStatus]
  IN IF newStatus THEN [h2 EXCEPT !.consecutiveFailures = 0] ELSE h2

\* The thrown probe stamping backendSince on every failure (the test of
\* route.ts:94 left out).
probeThrewAlwaysStamps(h, t) ==
  [h EXCEPT !.consecutiveFailures = h.consecutiveFailures + 1,
            !.backendSince = t, !.wroteSince = TRUE,
            !.isPrimaryHealthy = FALSE]

\* The thrown probe counting a failure only on the transition, as the
\* answered probe does (route.ts:92 moved under the test of route.ts:94).
probeThrewCountsOnce(h, t) ==
  IF h.isPrimaryHealthy
    THEN [h EXCEPT !.consecutiveFailures = h.consecutiveFailures + 1,
                   !.backendSince = t, !.wroteSince = TRUE,
                   !.isPrimaryHealthy = FALSE]
    ELSE h

\* The thrown probe without its counter increment (route.ts:92 left out).
probeThrewNoCount(h, t) ==
  LET h2 == IF h.isPrimaryHealthy
              THEN [h EXCEPT !.backendSince = t, !.wroteSince = TRUE]
              ELSE h
  IN [h2 EXCEPT !.isPrimaryHealthy = FALSE]

\* route.ts:90-100, the probe threw (network error, or abort by the timeout).
probeThrew(h, t) ==
  LET h1 == [h EXCEPT !.consecutiveFailures = h.consecutiveFailures + 1]
      h2 == IF h1.isPrimaryHealthy
              THEN [h1 EXCEPT !.backendSince = t, !.wroteSince = TRUE]
              ELSE h1
  IN [h2 EXCEPT !.isPrimaryHealthy = FALSE]

\* ------------------------------------------------------------ handleRequest
\* The origins the wrong way round.
baseUrlSwapped(usePrimary) == IF usePrimary THEN SECONDARY ELSE PRIMARY

\* route.ts:305
baseUrlOf(usePrimary) == IF usePrimary THEN PRIMARY ELSE SECONDARY

\* route.ts:128
readsBody(method) == method \in {"POST", "PUT", "PATCH"}

\* A body read whose catch swallows the error and passes the body on.
bodyReadSwallows(body) == FALSE

\* route.ts:132-157: req.json() rejects on a malformed JSON body and the
\* catch rethrows; every other read succeeds.
bodyReadThrows(body) == body = "badjson"

\* The delay without Math.min: doubling with no cap.
backoffDelayUncapped(attempt) == 1000 * Pow2(attempt)

\* route.ts:183 and 196
backoffDelay(attempt) == Min(1000 * Pow2(attempt), 5000)

\* The loop with `attempt < retries - 1` as its retry test.
retryDecisionShort(attempt, retries, isThrow, status) ==
  IF isThrow
    THEN (IF attempt < retries - 1 THEN "retry" ELSE "throw")
    ELSE IF status < 500 THEN "return"
    ELSE IF attempt < retries - 1 THEN "retry"
    ELSE "return"

\* The loop throwing after the last 5xx answer instead of returning it.
retryDecisionThrowsOn5xx(attempt, retries, isThrow, status) ==
  IF isThrow
    THEN (IF attempt < retries THEN "retry" ELSE "throw")
    ELSE IF status < 500 THEN "return"
    ELSE IF attempt < retries THEN "retry"
    ELSE "throw"

\* route.ts:166-206, what the loop does with the outcome of attempt number
\* `attempt`: outcome is "throw" or the status of the response.
retryDecision(attempt, retries, isThrow, status) ==
  IF isThrow
    THEN (IF attempt < retries THEN "retry" ELSE "throw")
    ELSE IF status < 500 THEN "return"
    ELSE IF attempt < retries THEN "retry"
    ELSE "return"

NoResponse ==
  [kind |-> "none", status |-> 0, cors |-> FALSE, backend |-> "none",
   failures |-> 0, attempts |-> 0, all5xx |-> FALSE, upstream |-> 0,
   sentTo |-> "none", body |-> "none"]

\* route.ts:329-348, the payload of handleRequest's catch.  `attempts` and
\* `all5xx` tell how many upstream fetches the request made and whether each
\* was answered with a status >= 500; `upstream` is the status of the
\* response that handleResponse failed to relay, 0 when there was none; `body`
\* is the framing of the response body (NextResponse.json here).
errorDetails(h, attempts, all5xx, sentTo, upstream) ==
  [kind |-> "proxyError", status |-> 500, cors |-> TRUE,
   backend |-> IF h.isPrimaryHealthy THEN "Primary" ELSE "Secondary",
   failures |-> h.consecutiveFailures,
   attempts |-> attempts, all5xx |-> all5xx, upstream |-> upstream,
   sentTo |-> sentTo, body |-> "json"]

\* route.ts:257-289: response.json() rejects on a body that is not JSON, and
\* the fallback's response.arrayBuffer() rejects because the body has been
\* consumed, so handleResponse rejects.
handleResponseThrows(resp) == resp.ctype = "json" /\ ~resp.parses

\* route.ts:241-279, the relayed response, framed as JSON, text or binary by
\* the upstream's content type.
handleResponse(resp, attempts, all5xx, sentTo) ==
  [kind |-> "relay", status |-> resp.status, cors |-> TRUE, backend |-> "none",
   failures |-> 0, attempts |-> attempts, all5xx |-> all5xx,
   upstream |-> resp.status, sentTo |-> sentTo, body |-> resp.ctype]

\* route.ts:388-393 (and the same in POST, PUT, PATCH, DELETE)
handlerError ==
  [kind |-> "handlerError", status |-> 500, cors |-> TRUE, backend |-> "none",
   failures |-> 0, attempts |-> 0, all5xx |-> FALSE, upstream |-> 0,
   sentTo |-> "none", body |-> "json"]

\* A rejection that no try block of the route catches: the exported handler
\* rejects and the caller gets no response from the route.
uncaught ==
  [kind |-> "uncaught", status |-> 0, cors |-> FALSE, backend |-> "none",
   failures |-> 0, attempts |-> 0, all5xx |-> FALSE, upstream |-> 0,
   sentTo |-> "none", body |-> "none"]

\* A handler in which handleResponse runs outside the try of handleRequest
\* and of the exported handler.
catcherMissesResponse(stage, method) ==
  IF stage = "response" THEN "none"
  ELSE IF stage = "params" /\ method = "GET" THEN "handler"
  ELSE "handleRequest"

\* The try block that catches a throw at a stage of the request: GET awaits
\* ctx.params in its own try (route.ts:357-358, 388); handleRequest awaits the
\* params, the health check, the body read, makeRequestWithRetries and
\* handleResponse inside its try (route.ts:300-329).
catcher(stage, method) ==
  IF stage = "params" /\ method = "GET" THEN "handler" ELSE "handleRequest"

\* The response to a throw caught by `by`.
caught(by, details) ==
  IF by = "handleRequest" THEN details
  ELSE IF by = "handler" THEN handlerError
  ELSE uncaught

\* route.ts:361-384
statusResponse(h) ==
  [kind |-> "status", status |-> 200, cors |-> FALSE,
   backend |-> IF h.isPrimaryHealthy THEN "Pi Server (Primary)" ELSE "Render (Secondary)",
   failures |-> h.consecutiveFailures,
   attempts |-> 0, all5xx |-> FALSE, upstream |-> 0,
   sentTo |-> IF h.isPrimaryHealthy THEN PRIMARY ELSE SECONDARY,
   body |-> "json"]

\* route.ts:458-474
preflightResponse ==
  [kind |-> "preflight", status |-> 200, cors |-> TRUE, backend |-> "none",
   failures |-> 0, attempts |-> 0, all5xx |-> FALSE, upstream |-> 0,
   sentTo |-> "none", body |-> "null"]

\* route.ts:361
isStatusPath(path) == Len(path) = 1 /\ path[1] = "status"

\* ------------------------------------------------------------------ state
\* A request in progress: where its handler waits (pc), whether its method
\* has a body to read (reads), the `now` its health check captured, the check's result and the
\* origin chosen from it, the index of the attempt in flight (attempt) and
\* whether every earlier attempt was answered with a status >= 500 (all5xx).
Idle ==
  [pc |-> "idle", reads |-> FALSE, now |-> 0,
   usePrimary |-> FALSE, baseUrl |-> "none", attempt |-> 0, all5xx |-> TRUE]

\* The record of what a step did: the check's return value ("none" when no
\* check returned), whether it issued the /health probe, the age of the
\* cache entry the check saw, whether it assigned backendSince, the origin an
\* upstream fetch was issued to ("none" when no fetch was issued) and the
\* backoff delay slept before that fetch (0 when none).  status, body and sim
\* are the inputs the step consumed: the status the probe answered, the
\* inbound body that was read, and whether the URL carried simulateDown=true.
Ev(type, p, ret, probe, age, sinceSet, fetchTo, delay) ==
  [type |-> type, p |-> p, ret |-> ret, probe |-> probe, age |-> age,
   sinceSet |-> sinceSet, fetchTo |-> fetchTo, delay |-> delay,
   status |-> 0, body |-> "none", sim |-> FALSE]

Quiet(type, p) == Ev(type, p, "none", FALSE, 0, FALSE, "none", 0)

BoolStr(b) == IF b THEN "true" ELSE "false"

NoRun == [kind |-> "none", n |-> 0]

\* The run of failed probes after one more failed probe of kind k.
RunAfter(k) ==
  IF run.kind \in {"none", k} THEN [kind |-> k, n |-> run.n + 1]
  ELSE [kind |-> "mixed", n |-> 0]

\* The browser sessions that call _fetchWithFallback on one ThirdVoiceAPI.
Callers == {1, 2}

\* api.ts:12-17, API_BACKENDS of a production build (index 0 first).
backends == <<PRIMARY, SECONDARY>>

\* A call of _fetchWithFallback that has not started: `tried` lists the
\* indices of the backends its attempts were sent to, `left` is the value of
\* currentBackendIndex when the call returned or threw.
NoFetch == [pc |-> "idle", attempt |-> 0, tried |-> <<>>, left |-> 0]

\* No call of _fetchWithFallback is made.
NoClient ==
  /\ currentBackendIndex = 0
  /\ calls = [c \in Callers |-> NoFetch]

\* No call of a pure helper is under evaluation.
NoCall ==
  [fn |-> "none", path |-> <<>>, query |-> <<>>, headers |-> {}, done |-> FALSE,
   targetPath |-> <<>>, outQuery |-> <<>>, outHeaders |-> {},
   retries |-> 0, outcomes |-> <<>>, attempts |-> 0, delays |-> <<>>,
   result |-> "none"]

Init ==
  /\ NoClient
  /\ lastSim = 0
  /\ reachable = "any"
  /\ call = NoCall
  /\ now = StartTime
  /\ isPrimaryHealthy = TRUE
  /\ lastChecked = 0
  /\ backendSince = StartTime
  /\ consecutiveFailures = 0
  /\ req = [p \in Procs |-> Idle]
  /\ ev = Quiet("init", 0)
  /\ out = NoResponse
  /\ winVals = {}
  /\ run = NoRun

\* ---------------------------------------------------------------- actions
\* The handler resumes after checkPrimaryHealth returned b (route.ts:304-314):
\* it fixes the target origin and either awaits the body read or, for a
\* method without a body, issues the first upstream fetch (route.ts:324,
\* 166-173).
AfterCheck(reads, b) ==
  [Idle EXCEPT !.pc = IF reads THEN "body" ELSE "fetch",
               !.usePrimary = b, !.baseUrl = baseUrlOf(b)]

FetchIssued(reads, base) == IF reads THEN "none" ELSE base

\* OPTIONS (route.ts:458-474).
Options(p) ==
  /\ req[p].pc = "idle"
  /\ out' = preflightResponse
  /\ ev' = Quiet("options", p)
  /\ UNCHANGED <<client, lastSim, call, reachable, now, health, req, winVals, run>>

\* ctx.params rejects: GET awaits it outside handleRequest (route.ts:358,
\* 388-393), the other methods inside handleRequest's try (route.ts:301,
\* 329-348).
ParamsRejected(p, method) ==
  /\ req[p].pc = "idle"
  /\ out' = caught(catcher("params", method),
                   errorDetails(Health, 0, FALSE, "none", 0))
  /\ ev' = Quiet("params", p)
  /\ UNCHANGED <<client, lastSim, call, reachable, now, health, req, winVals, run>>

\* A status branch placed after the health check of handleRequest, which
\* applies the simulateDown override.
StatusAfterHealthCheck(p, sim) ==
  LET h == IF sim THEN simulateDownOverride(Health, now) ELSE Health
  IN /\ req[p].pc = "idle"
     /\ SetHealth(h)
     /\ out' = statusResponse(h)
     /\ ev' = [Quiet("status", p) EXCEPT !.sim = sim, !.age = now - lastChecked]
     /\ UNCHANGED <<client, lastSim, call, reachable, now, req, winVals, run>>

\* GET with path ['status'] (route.ts:361-385), with or without
\* simulateDown=true in its URL.
Status(p, sim) ==
  /\ req[p].pc = "idle"
  /\ out' = statusResponse(Health)
  /\ ev' = [Quiet("status", p) EXCEPT !.sim = sim, !.age = now - lastChecked]
  /\ UNCHANGED <<client, lastSim, call, reachable, now, health, req, winVals, run>>

\* A proxied request whose URL contains simulateDown=true (route.ts:50-58).
SimulateDown(p, method, path) ==
  /\ req[p].pc = "idle"
  /\ ~(method = "GET" /\ isStatusPath(path))
  /\ LET h == simulateDownOverride(Health, now)
     IN /\ SetHealth(h)
        /\ req' = [req EXCEPT ![p] = AfterCheck(readsBody(method), h.isPrimaryHealthy)]
        /\ ev' = [Ev("simulateDown", p, BoolStr(h.isPrimaryHealthy), FALSE,
                     now - lastChecked, h.wroteSince,
                     FetchIssued(readsBody(method), baseUrlOf(h.isPrimaryHealthy)), 0)
                     EXCEPT !.sim = TRUE]
  /\ out' = NoResponse
  /\ winVals' = {}
  /\ run' = [kind |-> "mixed", n |-> 0]
  /\ lastSim' = now
  /\ UNCHANGED <<client, call, reachable, now>>

\* A proxied request that finds the cache entry fresh (route.ts:61-63).
CachedCheck(p, method, path) ==
  /\ req[p].pc = "idle"
  /\ ~(method = "GET" /\ isStatusPath(path))
  /\ isCached(now, lastChecked)
  /\ req' = [req EXCEPT ![p] = AfterCheck(readsBody(method), isPrimaryHealthy)]
  /\ ev' = Ev("cached", p, BoolStr(isPrimaryHealthy), FALSE, now - lastChecked,
              FALSE, FetchIssued(readsBody(method), baseUrlOf(isPrimaryHealthy)), 0)
  /\ out' = NoResponse
  /\ winVals' = winVals \cup {isPrimaryHealthy}
  /\ UNCHANGED <<client, lastSim, call, reachable, now, health, run>>

\* The probe started without stamping lastChecked before the await
\* (route.ts:65 left out).
StartProbeNoStamp(p, method, path) ==
  /\ req[p].pc = "idle"
  /\ ~(method = "GET" /\ isStatusPath(path))
  /\ ~isCached(now, lastChecked)
  /\ req' = [req EXCEPT ![p] = [Idle EXCEPT !.pc = "probe",
                                            !.reads = readsBody(method),
                                            !.now = now]]
  /\ ev' = Ev("probe", p, "none", TRUE, now - lastChecked, FALSE, "none", 0)
  /\ out' = NoResponse
  /\ winVals' = {}
  /\ UNCHANGED <<client, lastSim, call, reachable, now, lastChecked, isPrimaryHealthy, backendSince, consecutiveFailures, run>>

\* A proxied request that finds the cache entry expired: it stamps
\* lastChecked and awaits the probe of PRIMARY/health (route.ts:65-76).
StartProbe(p, method, path) ==
  /\ req[p].pc = "idle"
  /\ ~(method = "GET" /\ isStatusPath(path))
  /\ ~isCached(now, lastChecked)
  /\ lastChecked' = now
  /\ req' = [req EXCEPT ![p] = [Idle EXCEPT !.pc = "probe",
                                            !.reads = readsBody(method),
                                            !.now = now]]
  /\ ev' = Ev("probe", p, "none", TRUE, now - lastChecked, FALSE, "none", 0)
  /\ out' = NoResponse
  /\ winVals' = {}
  /\ UNCHANGED <<client, lastSim, call, reachable, now, isPrimaryHealthy, backendSince, consecutiveFailures, run>>

\* The probe answers (route.ts:78-88, 102).
ProbeAnswered(p, status) ==
  /\ req[p].pc = "probe"
  /\ LET h == probeAnswered(Health, req[p].now, status)
     IN /\ SetHealth(h)
        /\ req' = [req EXCEPT ![p] = AfterCheck(req[p].reads, h.isPrimaryHealthy)]
        /\ ev' = [Ev(IF newStatusOf(status) THEN "probeOk" ELSE "probeNon2xx", p,
                     BoolStr(h.isPrimaryHealthy), FALSE, 0, h.wroteSince,
                     FetchIssued(req[p].reads, baseUrlOf(h.isPrimaryHealthy)), 0)
                     EXCEPT !.status = status]
        /\ run' = IF newStatusOf(status) THEN NoRun ELSE RunAfter("non2xx")
  /\ out' = NoResponse
  /\ UNCHANGED <<client, lastSim, call, reachable, now, winVals>>

\* The probe throws: network error, or abort after HEALTH_CHECK_TIMEOUT
\* (route.ts:90-102).
ProbeThrew(p) ==
  /\ req[p].pc = "probe"
  /\ LET h == probeThrew(Health, req[p].now)
     IN /\ SetHealth(h)
        /\ req' = [req EXCEPT ![p] = AfterCheck(req[p].reads, h.isPrimaryHealthy)]
        /\ ev' = Ev("probeThrow", p, BoolStr(h.isPrimaryHealthy), FALSE, 0,
                    h.wroteSince,
                    FetchIssued(req[p].reads, baseUrlOf(h.isPrimaryHealthy)), 0)
  /\ run' = RunAfter("throw")
  /\ out' = NoResponse
  /\ UNCHANGED <<client, lastSim, call, reachable, now, winVals>>

\* The inbound body has been read and the first upstream fetch is issued
\* (route.ts:314-324, 166-173).
ReadBody(p, body) ==
  /\ req[p].pc = "body"
  /\ ~bodyReadThrows(body)
  /\ req' = [req EXCEPT ![p].pc = "fetch"]
  /\ ev' = [Ev("body", p, "none", FALSE, 0, FALSE, req[p].baseUrl, 0)
               EXCEPT !.body = body]
  /\ out' = NoResponse
  /\ UNCHANGED <<client, lastSim, call, reachable, now, health, winVals, run>>

\* Reading the inbound body throws (route.ts:154-157, 329-348).
BodyParseError(p, body) ==
  /\ req[p].pc = "body"
  /\ bodyReadThrows(body)
  /\ req' = [req EXCEPT ![p] = Idle]
  /\ ev' = [Quiet("bodyError", p) EXCEPT !.body = body]
  /\ out' = caught(catcher("body", "POST"),
                   errorDetails(Health, 0, FALSE, req[p].baseUrl, 0))
  /\ UNCHANGED <<client, lastSim, call, reachable, now, health, winVals, run>>

\* A retry that picks its origin again from the health flag of the moment.
retryTargetReselected(r, h) == baseUrlOf(h.isPrimaryHealthy)

\* route.ts:170: every attempt fetches the url argument, which handleRequest
\* built once from the origin it selected (route.ts:305-309, 324).
retryTarget(r, h) == r.baseUrl

\* The loop without attempt++: a retry leaves the attempt number as it was.
FetchOutcomeNoIncrement(p, isThrow, resp) ==
  LET attempt == req[p].attempt
      all5xx == req[p].all5xx /\ ~isThrow /\ resp.status >= 500
      d == retryDecision(attempt, MAX_RETRIES, isThrow, resp.status)
  IN /\ req[p].pc = "fetch"
     /\ IF d = "retry"
          THEN /\ req' = [req EXCEPT ![p].all5xx = all5xx,
                                     ![p].baseUrl = retryTarget(req[p], Health)]
               /\ ev' = Ev(IF isThrow THEN "fetchThrew" ELSE "fetchAnswered", p,
                           "none", FALSE, 0, FALSE, retryTarget(req[p], Health),
                           backoffDelay(attempt))
               /\ out' = NoResponse
          ELSE /\ req' = [req EXCEPT ![p] = Idle]
               /\ ev' = Quiet(IF isThrow THEN "fetchThrew" ELSE "fetchAnswered", p)
               /\ out' = IF d = "throw"
                           THEN caught(catcher("fetch", "any"),
                                       errorDetails(Health, attempt + 1, all5xx,
                                                    req[p].baseUrl, 0))
                         ELSE IF handleResponseThrows(resp)
                           THEN caught(catcher("response", "any"),
                                       errorDetails(Health, attempt + 1, all5xx,
                                                    req[p].baseUrl, resp.status))
                         ELSE handleResponse(resp, attempt + 1, all5xx,
                                             req[p].baseUrl)
     /\ UNCHANGED <<client, lastSim, call, reachable, now, health, winVals, run>>

\* The loop with a circuit breaker: a request to the primary that fails on
\* its last attempt marks the primary as down.
FetchOutcomeTripsBreaker(p, isThrow, resp) ==
  LET attempt == req[p].attempt
      all5xx == req[p].all5xx /\ ~isThrow /\ resp.status >= 500
      d == retryDecision(attempt, MAX_RETRIES, isThrow, resp.status)
  IN /\ req[p].pc = "fetch"
     /\ IF d = "retry"
          THEN /\ req' = [req EXCEPT ![p].attempt = attempt + 1,
                                     ![p].all5xx = all5xx,
                                     ![p].baseUrl = retryTarget(req[p], Health)]
               /\ ev' = Ev(IF isThrow THEN "fetchThrew" ELSE "fetchAnswered", p,
                           "none", FALSE, 0, FALSE, retryTarget(req[p], Health),
                           backoffDelay(attempt))
               /\ out' = NoResponse
          ELSE /\ req' = [req EXCEPT ![p] = Idle]
               /\ ev' = Quiet(IF isThrow THEN "fetchThrew" ELSE "fetchAnswered", p)
               /\ out' = IF d = "throw"
                           THEN caught(catcher("fetch", "any"),
                                       errorDetails(Health, attempt + 1, all5xx,
                                                    req[p].baseUrl, 0))
                         ELSE IF handleResponseThrows(resp)
                           THEN caught(catcher("response", "any"),
                                       errorDetails(Health, attempt + 1, all5xx,
                                                    req[p].baseUrl, resp.status))
                         ELSE handleResponse(resp, attempt + 1, all5xx,
                                             req[p].baseUrl)
     /\ IF d = "throw" /\ req[p].usePrimary
          THEN SetHealth(simulateDownOverride(Health, now))
          ELSE UNCHANGED health
     /\ UNCHANGED <<client, lastSim, call, reachable, now, winVals, run>>

\* One turn of the loop of makeRequestWithRetries (route.ts:166-204) for the
\* attempt in flight, whose outcome is a response or a throw (network error,
\* or abort after REQUEST_TIMEOUT).  On "retry" the handler sleeps the backoff
\* delay and issues the next attempt; neither touches the shared state, so
\* the sleep and the next fetch are part of this step.  On "return"
\* handleResponse relays the response (route.ts:327, 241-290), and when it
\* rejects, or on "throw", the catch of handleRequest answers (329-348).
FetchOutcome(p, isThrow, resp) ==
  LET attempt == req[p].attempt
      all5xx == req[p].all5xx /\ ~isThrow /\ resp.status >= 500
      d == retryDecision(attempt, MAX_RETRIES, isThrow, resp.status)
  IN /\ req[p].pc = "fetch"
     /\ IF d = "retry"
          THEN /\ req' = [req EXCEPT ![p].attempt = attempt + 1,
                                     ![p].all5xx = all5xx,
                                     ![p].baseUrl = retryTarget(req[p], Health)]
               /\ ev' = Ev(IF isThrow THEN "fetchThrew" ELSE "fetchAnswered", p,
                           "none", FALSE, 0, FALSE, retryTarget(req[p], Health),
                           backoffDelay(attempt))
               /\ out' = NoResponse
          ELSE /\ req' = [req EXCEPT ![p] = Idle]
               /\ ev' = Quiet(IF isThrow THEN "fetchThrew" ELSE "fetchAnswered", p)
               /\ out' = IF d = "throw"
                           THEN caught(catcher("fetch", "any"),
                                       errorDetails(Health, attempt + 1, all5xx,
                                                    req[p].baseUrl, 0))
                         ELSE IF handleResponseThrows(resp)
                           THEN caught(catcher("response", "any"),
                                       errorDetails(Health, attempt + 1, all5xx,
                                                    req[p].baseUrl, resp.status))
                         ELSE handleResponse(resp, attempt + 1, all5xx,
                                             req[p].baseUrl)
     /\ UNCHANGED <<client, lastSim, call, reachable, now, health, winVals, run>>

FetchAnswered(p, resp) == FetchOutcome(p, FALSE, resp)

FetchThrew(p) ==
  FetchOutcome(p, TRUE, [status |-> 0, ctype |-> "binary", parses |-> TRUE])

\* Time passes.  A probe in flight is aborted HEALTH_CHECK_TIMEOUT after it
\* was issued (route.ts:31-41, 66), so the clock does not pass that deadline
\* while the probe is pending.  The clock is read after a whole cache
\* interval, or after a shorter time spent waiting for a pending probe.
Tick(d) ==
  /\ now + d =< StartTime + MaxElapsed
  /\ d = HEALTH_CHECK_INTERVAL \/ \E p \in Procs : req[p].pc = "probe"
  /\ \A p \in Procs : req[p].pc = "probe" => now + d =< req[p].now + HEALTH_CHECK_TIMEOUT
  /\ now' = now + d
  /\ ev' = Quiet("tick", 0)
  /\ out' = NoResponse
  /\ UNCHANGED <<client, lastSim, call, reachable, health, req, winVals, run>>

Next ==
  \/ \E p \in Procs : Options(p)
  \/ \E p \in Procs, m \in Methods : ParamsRejected(p, m)
  \/ \E p \in Procs, s \in BOOLEAN : Status(p, s)
  \/ \E p \in Procs, m \in Methods, path \in Paths : SimulateDown(p, m, path)
  \/ \E p \in Procs, m \in Methods, path \in Paths : CachedCheck(p, m, path)
  \/ \E p \in Procs, m \in Methods, path \in Paths : StartProbe(p, m, path)
  \/ \E p \in Procs, s \in ProbeStatuses : ProbeAnswered(p, s)
  \/ \E p \in Procs : ProbeThrew(p)
  \/ \E p \in Procs, b \in Bodies : ReadBody(p, b)
  \/ \E p \in Procs, b \in Bodies : BodyParseError(p, b)
  \/ \E p \in Procs, r \in UpstreamResponses : FetchAnswered(p, r)
  \/ \E p \in Procs : FetchThrew(p)
  \/ \E d \in TickSteps : Tick(d)

Spec == Init /\ [][Next]_vars

\* The pending await of request p settles: the probe or the upstream fetch is
\* answered, fails or is aborted by its timeout (route.ts:31-41, 66, 167),
\* or the inbound body has been read.
Step(p) ==
  \/ \E s \in ProbeStatuses : ProbeAnswered(p, s)
  \/ ProbeThrew(p)
  \/ \E b \in Bodies : ReadBody(p, b) \/ BodyParseError(p, b)
  \/ \E r \in UpstreamResponses : FetchAnswered(p, r)
  \/ FetchThrew(p)

\* The steps of the requests that await something (OPTIONS, GET ['status']
\* and a rejected params promise are answered in the step they arrive in),
\* with one inbound method that carries a body and one that does not, on one
\* proxied path, and the clock read after whole cache intervals.
FairNext ==
  \/ \E p \in Procs, m \in {"GET", "POST"} : SimulateDown(p, m, <<"api", "messages">>)
  \/ \E p \in Procs, m \in {"GET", "POST"} : CachedCheck(p, m, <<"api", "messages">>)
  \/ \E p \in Procs, m \in {"GET", "POST"} : StartProbe(p, m, <<"api", "messages">>)
  \/ \E p \in Procs, s \in ProbeStatuses : ProbeAnswered(p, s)
  \/ \E p \in Procs : ProbeThrew(p)
  \/ \E p \in Procs, b \in Bodies : ReadBody(p, b)
  \/ \E p \in Procs, b \in Bodies : BodyParseError(p, b)
  \/ \E p \in Procs, r \in UpstreamResponses : FetchAnswered(p, r)
  \/ \E p \in Procs : FetchThrew(p)
  \/ Tick(HEALTH_CHECK_INTERVAL)

\* The route when every await settles.
SpecFair == Init /\ [][FairNext]_vars /\ \A p \in Procs : WF_vars(Step(p))

\* ---------------------------------------------------------------------------
\* The pure helpers of the route: createForwardHeaders and buildTargetUrl.
\* A string is a sequence of characters, a query a sequence of <<key, value>>
\* pairs in URL order, a header collection a set of <<name, value>> pairs with
\* lower-case names (what a Headers object iterates).

MaxSegments == 2
MaxParams == 3

docs == <<"d", "o", "c", "s">>

\* Path segments: empty, plain, holding a (decoded) slash, and 'docs'.
Segments == {<<>>, <<"a">>, <<"/">>, <<"a", "/">>, docs}

SeqsUpTo(S, n) == UNION {[1..k -> S] : k \in 0..n}

\* ctx.params.path values: non-empty lists of segments.
PathLists == SeqsUpTo(Segments, MaxSegments) \ {<<>>}

QueryKeys == {"a", "b", "simulateDown"}
QueryValues == {"1", "true"}
Queries == SeqsUpTo(QueryKeys \X QueryValues, MaxParams)

\* route.ts:17-20
BLOCKED_HEADERS ==
  {"host", "connection", "keep-alive", "proxy-authenticate",
   "proxy-authorization", "te", "trailer", "upgrade"}

\* Names of inbound headers.
HeaderNames ==
  {"host", "connection", "keep-alive", "proxy-authorization", "proxy-connection",
   "content-length", "transfer-encoding", "x-forwarded-for", "x-real-ip",
   "user-agent", "accept"}

\* Inbound header collections: each present name carries the client's value.
InboundHeaders == {{<<n, "client">> : n \in S} : S \in SUBSET HeaderNames}

\* Headers.set(name, value)
headersSet(hs, name, value) ==
  {h \in hs : h[1] # name} \cup {<<name, value>>}

\* route.ts:108-122
createForwardHeaders(originalHeaders) ==
  headersSet({h \in originalHeaders : h[1] \notin BLOCKED_HEADERS},
             "user-agent", "NextJS-Proxy")

\* Array.prototype.join('/')
RECURSIVE join(_)
join(segs) ==
  IF Len(segs) = 0 THEN <<>>
  ELSE IF Len(segs) = 1 THEN segs[1]
  ELSE segs[1] \o <<"/">> \o join(Tail(segs))

\* replace(/\/+$/, ''), route.ts:213
RECURSIVE stripTrailingSlashes(_)
stripTrailingSlashes(str) ==
  IF Len(str) > 0 /\ str[Len(str)] = "/"
    THEN stripTrailingSlashes(SubSeq(str, 1, Len(str) - 1))
    ELSE str

\* The path resolved with the pattern /\/$/, which removes one trailing slash.
targetPathOneSlash(path) ==
  LET str == join(path)
  IN IF path[1] = docs THEN docs
     ELSE IF Len(str) > 0 /\ str[Len(str)] = "/"
       THEN SubSeq(str, 1, Len(str) - 1)
       ELSE str

\* route.ts:213-218
targetPathOf(path) ==
  IF path[1] = docs THEN docs ELSE stripTrailingSlashes(join(path))

\* URLSearchParams.set(key, value): the first pair with the key gets the
\* value and the other pairs with the key are removed; a new key is appended.
searchParamsSet(q, key, value) ==
  IF \E i \in 1..Len(q) : q[i][1] = key
    THEN LET first == CHOOSE i \in 1..Len(q) :
                        q[i][1] = key /\ \A j \in 1..(i - 1) : q[j][1] # key
             keep == {i \in 1..Len(q) : q[i][1] # key \/ i = first}
             idx(k) == CHOOSE i \in keep : Cardinality({j \in keep : j < i}) = k - 1
         IN [k \in 1..Cardinality(keep) |->
               IF idx(k) = first THEN <<key, value>> ELSE q[idx(k)]]
    ELSE Append(q, <<key, value>>)

\* route.ts:224-231: searchParams.forEach over the inbound query, from an
\* outbound query that starts empty (the origins carry no query).
RECURSIVE copyQuery(_, _)
copyQuery(outQuery, inQuery) ==
  IF Len(inQuery) = 0 THEN outQuery
  ELSE LET key == inQuery[1][1]
           value == inQuery[1][2]
       IN copyQuery(IF key \notin {"simulateDown"}
                      THEN searchParamsSet(outQuery, key, value)
                      ELSE outQuery,
                    Tail(inQuery))

\* The retries argument of makeRequestWithRetries (route.ts:163; MAX_RETRIES
\* when omitted).
MaxRetriesArg == 4

\* What a fetch attempt comes to: a throw (network error, abort after
\* REQUEST_TIMEOUT) or a response with a status.
AttemptOutcomes ==
  {[isThrow |-> TRUE, status |-> 0], [isThrow |-> FALSE, status |-> 200],
   [isThrow |-> FALSE, status |-> 503]}

\* route.ts:166-206, the whole loop on the outcomes of its attempts: how many
\* attempts were made, the delays slept between them, and how it ended.
RECURSIVE retryLoop(_, _, _, _)
retryLoop(attempt, retries, outcomes, delays) ==
  LET o == outcomes[attempt + 1]
      d == retryDecision(attempt, retries, o.isThrow, o.status)
  IN IF d = "retry"
       THEN retryLoop(attempt + 1, retries, outcomes,
                      Append(delays, backoffDelay(attempt)))
       ELSE [attempts |-> attempt + 1, delays |-> delays, result |-> d]

\* The calls to evaluate.
HelperCalls ==
  {[NoCall EXCEPT !.fn = "buildTargetUrl", !.path = pl, !.query = q] :
      pl \in PathLists, q \in Queries}
  \cup {[NoCall EXCEPT !.fn = "createForwardHeaders", !.headers = hs] :
      hs \in InboundHeaders}
  \cup {[NoCall EXCEPT !.fn = "makeRequestWithRetries", !.retries = r,
                       !.outcomes = os] :
      r \in 0..MaxRetriesArg, os \in [1..(MaxRetriesArg + 1) -> AttemptOutcomes]}

HelpersInit ==
  /\ NoClient
  /\ lastSim = 0
  /\ call \in HelperCalls
  /\ reachable = "any"
  /\ now = StartTime
  /\ isPrimaryHealthy = TRUE
  /\ lastChecked = 0
  /\ backendSince = StartTime
  /\ consecutiveFailures = 0
  /\ req = [p \in Procs |-> Idle]
  /\ ev = Quiet("init", 0)
  /\ out = NoResponse
  /\ winVals = {}
  /\ run = NoRun

\* route.ts:212-236
BuildTargetUrl ==
  /\ call.fn = "buildTargetUrl"
  /\ ~call.done
  /\ call' = [call EXCEPT !.done = TRUE,
                          !.targetPath = targetPathOf(call.path),
                          !.outQuery = copyQuery(<<>>, call.query)]
  /\ UNCHANGED <<client, lastSim, reachable, now, health, req, ev, out, winVals, run>>

\* route.ts:108-122
CreateForwardHeaders ==
  /\ call.fn = "createForwardHeaders"
  /\ ~call.done
  /\ call' = [call EXCEPT !.done = TRUE,
                          !.outHeaders = createForwardHeaders(call.headers)]
  /\ UNCHANGED <<client, lastSim, reachable, now, health, req, ev, out, winVals, run>>

\* route.ts:163-207
MakeRequestWithRetries ==
  /\ call.fn = "makeRequestWithRetries"
  /\ ~call.done
  /\ LET r == retryLoop(0, call.retries, call.outcomes, <<>>)
     IN call' = [call EXCEPT !.done = TRUE, !.attempts = r.attempts,
                             !.delays = r.delays, !.result = r.result]
  /\ UNCHANGED <<client, lastSim, reachable, now, health, req, ev, out, winVals, run>>

HelpersNext ==
  \/ BuildTargetUrl
  \/ CreateForwardHeaders
  \/ MakeRequestWithRetries

SpecHelpers == HelpersInit /\ [][HelpersNext]_vars

\* ---------------------------------------------------------------------------
\* The browser's client, ThirdVoiceAPI._fetchWithFallback (api.ts:38-77,
\* App.jsx:18-56): calls that run concurrently on one instance share
\* currentBackendIndex.

ClientInit ==
  /\ NoClient
  /\ lastSim = 0
  /\ reachable = "any"
  /\ call = NoCall
  /\ now = StartTime
  /\ isPrimaryHealthy = TRUE
  /\ lastChecked = 0
  /\ backendSince = StartTime
  /\ consecutiveFailures = 0
  /\ req = [p \in Procs |-> Idle]
  /\ ev = Quiet("init", 0)
  /\ out = NoResponse
  /\ winVals = {}
  /\ run = NoRun

server == <<lastSim, reachable, call, now, health, req, ev, out, winVals, run>>

\* api.ts:66
nextBackendIndex(index) == (index + 1) % Len(backends)

\* A call starts: the first turn of the loop reads currentBackendIndex and
\* awaits the fetch (api.ts:39-55).
ClientStart(c) ==
  /\ calls[c].pc # "fetch"
  /\ calls' = [calls EXCEPT ![c] = [pc |-> "fetch", attempt |-> 0,
                                    tried |-> <<currentBackendIndex>>,
                                    left |-> 0]]
  /\ UNCHANGED <<currentBackendIndex, server>>

\* The fetch is answered with an ok response: the call returns (api.ts:57-63).
ClientFetchOk(c) ==
  /\ calls[c].pc = "fetch"
  /\ calls' = [calls EXCEPT ![c].pc = "ok", ![c].left = currentBackendIndex]
  /\ UNCHANGED <<currentBackendIndex, server>>

\* The fetch throws, times out or is answered with a response that is not
\* ok: the catch advances currentBackendIndex, then throws after the last
\* attempt or goes on with the next turn of the loop, which reads
\* currentBackendIndex and awaits the next fetch (api.ts:57-60, 64-72, 42-51).
ClientFetchFailed(c) ==
  LET maxRetries == Len(backends)
      attempt == calls[c].attempt
      index == nextBackendIndex(currentBackendIndex)
  IN /\ calls[c].pc = "fetch"
     /\ currentBackendIndex' = index
     /\ calls' = IF attempt = maxRetries - 1
                   THEN [calls EXCEPT ![c].pc = "failed", ![c].left = index]
                   ELSE [calls EXCEPT ![c].attempt = attempt + 1,
                                      ![c].tried = Append(calls[c].tried, index)]
     /\ UNCHANGED server

ClientNext ==
  \/ \E c \in Callers : ClientStart(c)
  \/ \E c \in Callers : ClientFetchOk(c)
  \/ \E c \in Callers : ClientFetchFailed(c)

SpecClient == ClientInit /\ [][ClientNext]_vars

\* ---------------------------------------------------------------------------
\* The route from a point on from which exactly one origin answers: every
\* call to the reachable origin (health path and endpoints) is answered 2xx,
\* every call to the other one fails, and no request carries
\* simulateDown=true.

\* The health state at that point: as after construction; as left by a
\* simulateDown request at StartTime; as left by a 2xx probe at StartTime.
SettledHealth ==
  { [isPrimaryHealthy |-> TRUE, lastChecked |-> 0,
     backendSince |-> StartTime, consecutiveFailures |-> 0],
    [isPrimaryHealthy |-> FALSE, lastChecked |-> StartTime,
     backendSince |-> StartTime, consecutiveFailures |-> 1],
    [isPrimaryHealthy |-> TRUE, lastChecked |-> StartTime,
     backendSince |-> StartTime, consecutiveFailures |-> 0] }

SettledInit ==
  /\ NoClient
  /\ reachable \in {PRIMARY, SECONDARY}
  /\ call = NoCall
  /\ now = StartTime
  /\ \E h \in SettledHealth :
       /\ isPrimaryHealthy = h.isPrimaryHealthy
       /\ lastChecked = h.lastChecked
       /\ backendSince = h.backendSince
       /\ consecutiveFailures = h.consecutiveFailures
       /\ run = IF h.isPrimaryHealthy THEN NoRun ELSE [kind |-> "mixed", n |-> 0]
       /\ lastSim = IF h.isPrimaryHealthy THEN 0 ELSE StartTime
  /\ req = [p \in Procs |-> Idle]
  /\ ev = Quiet("init", 0)
  /\ out = NoResponse
  /\ winVals = {}

\* The primary's /health answers 2xx exactly when the primary is reachable.
SettledProbeAnswered(p, status) ==
  /\ reachable = PRIMARY <=> status \in 200..299
  /\ ProbeAnswered(p, status)

SettledProbeThrew(p) ==
  /\ reachable # PRIMARY
  /\ ProbeThrew(p)

\* The reachable origin answers 2xx, the other one 5xx.
SettledFetchAnswered(p, resp) ==
  /\ req[p].pc = "fetch"
  /\ IF req[p].baseUrl = reachable THEN resp.status \in 200..299
                                   ELSE resp.status >= 500
  /\ FetchAnswered(p, resp)

\* A call to the unreachable origin fails or times out.
SettledFetchThrew(p) ==
  /\ req[p].pc = "fetch"
  /\ req[p].baseUrl # reachable
  /\ FetchThrew(p)

\* A proxied request arrives.
Arrival(p) ==
  \E m \in Methods, path \in Paths :
    CachedCheck(p, m, path) \/ StartProbe(p, m, path)

\* The pending await of request p resolves.
Completion(p) ==
  \/ \E s \in ProbeStatuses : SettledProbeAnswered(p, s)
  \/ SettledProbeThrew(p)
  \/ \E b \in Bodies : ReadBody(p, b) \/ BodyParseError(p, b)
  \/ \E r \in UpstreamResponses : SettledFetchAnswered(p, r)
  \/ SettledFetchThrew(p)

SettledNext ==
  \/ \E p \in Procs : Options(p)
  \/ \E p \in Procs : Status(p, FALSE)
  \/ \E p \in Procs, m \in Methods, path \in Paths : CachedCheck(p, m, path)
  \/ \E p \in Procs, m \in Methods, path \in Paths : StartProbe(p, m, path)
  \/ \E p \in Procs, s \in ProbeStatuses : SettledProbeAnswered(p, s)
  \/ \E p \in Procs : SettledProbeThrew(p)
  \/ \E p \in Procs, b \in Bodies : ReadBody(p, b)
  \/ \E p \in Procs, b \in Bodies : BodyParseError(p, b)
  \/ \E p \in Procs, r \in UpstreamResponses : SettledFetchAnswered(p, r)
  \/ \E p \in Procs : SettledFetchThrew(p)
  \/ \E d \in TickSteps : Tick(d)

\* Proxied requests keep arriving, every pending fetch is answered, fails or
\* is aborted by its timeout (route.ts:31-41, 66, 171), and time passes.
SettledFairness ==
  /\ WF_vars(\E p \in Procs : Arrival(p))
  /\ \A p \in Procs : WF_vars(Completion(p))
  /\ WF_vars(Tick(HEALTH_CHECK_INTERVAL))

SpecSettled == SettledInit /\ [][SettledNext]_vars /\ SettledFairness

\* ------------------------------------------------------------- properties
Forwarded(o) == o.kind \in {"relay", "proxyError"} /\ o.attempts > 0

\* C1: within the cache window opened by the most recent uncached check,
\* every call that is answered from the cache returns the same boolean, and a
\* probe is issued only when the cache entry is at least
\* HEALTH_CHECK_INTERVAL old.
C1_CacheFreshness ==
  /\ Cardinality(winVals) =< 1
  /\ ev.probe => ev.age >= HEALTH_CHECK_INTERVAL

\* C2: a step assigns backendSince if and only if isPrimaryHealthy after the
\* step differs from isPrimaryHealthy before it.
C2_TransitionRecording ==
  [][ev'.sinceSet <=> (isPrimaryHealthy' # isPrimaryHealthy)]_vars

C2_Witness == ev.type = "probeOk" /\ ev.sinceSet

\* C3: a forwarded request whose every attempt was answered with a status
\* >= 500 made exactly MAX_RETRIES + 1 upstream fetches when it completes, and
\* no request in progress is past attempt index MAX_RETRIES.
C3_RetryBound ==
  /\ (Forwarded(out) /\ out.all5xx) => out.attempts = MAX_RETRIES + 1
  /\ \A p \in Procs : req[p].attempt =< MAX_RETRIES

C3_Witness == out.kind = "relay" /\ out.all5xx /\ out.attempts = 3

C5_NoRetryBelow500 ==
  (Forwarded(out) /\ out.upstream \in 1..499 /\ out.attempts = 1) =>
     out.status = out.upstream

\* C6: every response returned to a caller carries
\* Access-Control-Allow-Origin.
C6_CorsOnEveryResponse == out.kind # "none" => out.cors

\* C7: a proxied request with simulateDown=true gets `false` from
\* checkPrimaryHealth without a probe being issued, is given the secondary
\* origin, and leaves consecutiveFailures >= 1.
C7_SimulatedFailover ==
  ev.type = "simulateDown" =>
     /\ ev.ret = "false" /\ ~ev.probe
     /\ ~isPrimaryHealthy /\ consecutiveFailures >= 1
     /\ req[ev.p].pc \in {"body", "fetch"}
     /\ ~req[ev.p].usePrimary /\ req[ev.p].baseUrl = SECONDARY
     /\ ev.fetchTo \in {"none", SECONDARY}

C7_Witness ==
  ev.type = "simulateDown" /\ ev.sinceSet /\ ev.fetchTo = SECONDARY

\* C8: after k >= 1 thrown probes in a row from the healthy state,
\* consecutiveFailures = k and isPrimaryHealthy = FALSE, and a request
\* answered from the cache then is given the secondary origin.
C8_RepeatedProbeTimeouts ==
  run.kind = "throw" =>
     /\ consecutiveFailures = run.n /\ ~isPrimaryHealthy
     /\ ev.type = "cached" =>
          ev.ret = "false" /\ req[ev.p].baseUrl = SECONDARY

C8_Witness ==
  run.kind = "throw" /\ run.n = 2 /\ ev.type = "cached"

\* C9: consecutiveFailures grows only in a step of a failed check, and is 0
\* right after a successful probe.
C9_FailureCounter ==
  [][/\ consecutiveFailures' > consecutiveFailures =>
          ev'.type \in {"probeNon2xx", "probeThrow", "simulateDown"}
     /\ ev'.type = "probeOk" => consecutiveFailures' = 0]_vars

C9_Witness ==
  ev.type = "probeOk" /\ ev.sinceSet /\ consecutiveFailures = 0

\* C10: a request is given the primary origin if and only if its health
\* check returned true, otherwise the secondary, and every upstream fetch goes
\* to the origin the request was given.
C10_OriginSelection ==
  /\ \A p \in Procs : req[p].pc \in {"body", "fetch"} =>
        req[p].baseUrl = IF req[p].usePrimary THEN PRIMARY ELSE SECONDARY
  /\ ev.ret # "none" => req[ev.p].usePrimary = (ev.ret = "true")
  /\ ev.fetchTo # "none" =>
        /\ ev.fetchTo \in {PRIMARY, SECONDARY}
        /\ ev.fetchTo = IF req[ev.p].usePrimary THEN PRIMARY ELSE SECONDARY

C10_Witness ==
  ev.type = "body" /\ ev.fetchTo = PRIMARY /\ req[ev.p].usePrimary

\* C11 (health determination): a probe that was answered or failed leaves
\* isPrimaryHealthy TRUE exactly when the answer was a 2xx status, FALSE on
\* every other status and on a network error or timeout, and
\* checkPrimaryHealth returns to handleRequest, which goes on to the body read
\* or the upstream fetch: no error response is produced by the step.
C11_HealthDetermination ==
  ev.type \in {"probeOk", "probeNon2xx", "probeThrow"} =>
    /\ isPrimaryHealthy <=> (ev.type # "probeThrow" /\ ev.status \in 200..299)
    /\ ev.ret = BoolStr(isPrimaryHealthy)
    /\ out = NoResponse
    /\ req[ev.p].pc \in {"body", "fetch"}

C11_Witness ==
  /\ ev.type = "probeNon2xx"
  /\ ev.status = 304
  /\ ~isPrimaryHealthy

C13_MalformedBodyForwarded ==
  ev.body = "badjson" => ev.fetchTo # "none"

\* C13 as the code has it: reading a malformed JSON body rethrows as
\* 'Invalid request body', handleRequest answers with the 500 error payload
\* and no upstream request was or is issued for the request.
C13_MalformedBodyRejected ==
  ev.body = "badjson" =>
    /\ ev.type = "bodyError"
    /\ ev.fetchTo = "none"
    /\ out.kind = "proxyError"
    /\ out.status = 500
    /\ out.attempts = 0
    /\ req[ev.p].pc = "idle"

C13_Witness ==
  /\ ev.body = "badjson"
  /\ out.kind = "proxyError"
  /\ out.attempts = 0

\* The pairs of a query as a bag.
RECURSIVE pairsOf(_)
pairsOf(q) ==
  IF Len(q) = 0 THEN EmptyBag ELSE SetToBag({q[1]}) (+) pairsOf(Tail(q))

\* The pairs of a query whose key is not simulateDown, in order.
withoutSimulateDown(q) == SelectSeq(q, LAMBDA pr : pr[1] # "simulateDown")

\* C14 (query forwarding): the outbound query holds every (key, value) pair
\* of the inbound query except those with key simulateDown, each as often as
\* it occurs inbound, and nothing else.
C14_QueryForwarding ==
  (call.fn = "buildTargetUrl" /\ call.done) =>
    pairsOf(call.outQuery) = pairsOf(withoutSimulateDown(call.query))

\* C15 (header block-list): the outbound headers are the inbound ones minus
\* the block-list, hold none of host, connection, content-length,
\* transfer-encoding, x-forwarded-for, x-real-ip or a proxy-* header, and
\* carry the proxy's fixed User-Agent.
C15_HeaderBlockList ==
  (call.fn = "createForwardHeaders" /\ call.done) =>
    LET names == {h[1] : h \in call.outHeaders}
    IN /\ names \cap {"host", "connection", "content-length",
                      "transfer-encoding", "x-forwarded-for", "x-real-ip",
                      "proxy-authenticate", "proxy-authorization",
                      "proxy-connection"} = {}
       /\ \A h \in call.outHeaders :
            h[1] = "user-agent" => h[2] = "NextJS-Proxy"
       /\ "user-agent" \in names
       /\ \A h \in call.headers :
            h[1] \notin BLOCKED_HEADERS \cup {"user-agent"} => h \in call.outHeaders

\* C16 (path resolution): the resolved path is 'docs' when the first segment
\* is 'docs'; otherwise it is the segments joined with '/' cut before its
\* trailing slashes: a prefix of the joined string that does not end in a
\* slash and is followed by slashes only.
C16_PathResolution ==
  (call.fn = "buildTargetUrl" /\ call.done) =>
    LET joined == join(call.path)
        t == call.targetPath
    IN IF call.path[1] = docs THEN t = docs
       ELSE /\ Len(t) =< Len(joined)
            /\ t = SubSeq(joined, 1, Len(t))
            /\ Len(t) > 0 => t[Len(t)] # "/"
            /\ \A i \in (Len(t) + 1)..Len(joined) : joined[i] = "/"

C16_Witness ==
  /\ call.fn = "buildTargetUrl"
  /\ call.done
  /\ call.path = <<<<"a", "/">>, <<>>>>
  /\ call.targetPath = <<"a">>

\* C17 (status is read-only): a step that answers GET ['status'] starts no
\* probe, issues no upstream request, leaves isPrimaryHealthy, lastChecked,
\* backendSince and consecutiveFailures and every request in flight as they
\* were, whatever the age of the cache and whether or not the URL carries
\* simulateDown=true, and the reported currentBackend and backendUrl agree
\* with the isPrimaryHealthy it reports.
C17_StatusReadOnly ==
  [][ev'.type = "status" =>
       /\ UNCHANGED <<health, req, now>>
       /\ ~ev'.probe
       /\ ev'.fetchTo = "none"
       /\ out'.kind = "status"
       /\ out'.failures = consecutiveFailures
       /\ IF isPrimaryHealthy
            THEN out'.backend = "Pi Server (Primary)" /\ out'.sentTo = PRIMARY
            ELSE out'.backend = "Render (Secondary)" /\ out'.sentTo = SECONDARY]_vars

C17_Witness ==
  /\ ev.type = "status"
  /\ ev.sim
  /\ ev.age >= HEALTH_CHECK_INTERVAL
  /\ ~isPrimaryHealthy
  /\ out.backend = "Render (Secondary)"

\* C18 (verbatim relay of non-5xx): a forwarded request whose upstream
\* answered with a status below 500 is answered with that status and the
\* upstream's body, never with the proxy's error payload.
C18_VerbatimRelay ==
  (Forwarded(out) /\ out.upstream \in 1..499) =>
    /\ out.kind = "relay"
    /\ out.status = out.upstream
    /\ out.body \in {"json", "text"}

\* C20 (error payload names the backend in use): the backend field of the
\* error payload of a forwarded request names the origin the request's
\* attempts were sent to, and consecutiveFailures is the current counter.
C20_ErrorPayloadBackend ==
  (out.kind = "proxyError" /\ out.attempts > 0) =>
    /\ out.backend = "Primary" <=> out.sentTo = PRIMARY
    /\ out.backend = "Secondary" <=> out.sentTo = SECONDARY
    /\ out.failures = consecutiveFailures

\* C19 (eventually pick a reachable backend): once exactly one origin
\* answers, no request carries simulateDown=true and requests keep arriving,
\* from some point on isPrimaryHealthy tells whether the primary is the
\* reachable origin and every upstream fetch goes to the reachable origin.
C19_EventuallyReachable ==
  <>[](/\ isPrimaryHealthy <=> reachable = PRIMARY
       /\ ev.fetchTo # "none" => ev.fetchTo = reachable)

\* The primary has recovered: the probe after the expiry of the cache entry
\* of an unhealthy state is answered 2xx and the request goes to the primary.
C19_Witness ==
  /\ reachable = PRIMARY
  /\ ev.type = "probeOk"
  /\ ev.sinceSet
  /\ ev.fetchTo = PRIMARY
  /\ isPrimaryHealthy

\* C21 (backoff schedule): the delay slept before retry k is 1000 ms for
\* k = 1 and twice the previous delay afterwards, capped at 5000 ms, whatever
\* mix of 5xx answers and throws the failed attempts were; the delays never
\* decrease and never exceed 5000 ms; one delay is slept after every attempt
\* but the last, and every attempt followed by a delay threw or was answered
\* with a status >= 500.
C21_BackoffSchedule ==
  (call.fn = "makeRequestWithRetries" /\ call.done) =>
    LET d == call.delays
    IN /\ Len(d) = call.attempts - 1
       /\ Len(d) =< call.retries
       /\ \A k \in 1..Len(d) :
            /\ d[k] =< 5000
            /\ k = 1 => d[k] = 1000
            /\ k > 1 => /\ d[k - 1] =< d[k]
                        /\ d[k] = IF 2 * d[k - 1] > 5000 THEN 5000
                                  ELSE 2 * d[k - 1]
            /\ call.outcomes[k].isThrow \/ call.outcomes[k].status >= 500

C21_Witness ==
  /\ call.fn = "makeRequestWithRetries"
  /\ call.done
  /\ Len(call.delays) = 4
  /\ call.delays[3] = 4000
  /\ call.delays[4] = 5000
  /\ call.outcomes[1].isThrow
  /\ ~call.outcomes[2].isThrow

\* C22 (termination): when every await settles, every request in flight is
\* eventually answered, and at no time has a request made more than
\* MAX_RETRIES + 1 attempts or slept more than MAX_RETRIES backoff delays.
C22_Termination ==
  /\ \A p \in Procs :
       (req[p].pc # "idle") ~> (req[p].pc = "idle" /\ ev.p = p /\ out # NoResponse)
  /\ [](\A p \in Procs : req[p].attempt =< MAX_RETRIES)
  /\ [](out.attempts =< MAX_RETRIES + 1)

\* A request answered after its last retry.
C22_Witness ==
  /\ out # NoResponse
  /\ out.attempts = MAX_RETRIES + 1
  /\ req[ev.p].pc = "idle"

\* C23 (retries stay on one target): from the step that selects the origin of
\* a request to the step that answers it, the origin of the request does not
\* change, every fetch the request issues goes to it, whatever
\* isPrimaryHealthy has become meanwhile, the answer names it, and a step of
\* one request leaves the other requests as they were.
C23_RetriesStayOnTarget ==
  [][\A p \in Procs :
       /\ (req[p].pc \in {"body", "fetch"} /\ req'[p].pc \in {"body", "fetch"}) =>
            /\ req'[p].baseUrl = req[p].baseUrl
            /\ req'[p].usePrimary = req[p].usePrimary
            /\ (ev'.p = p /\ ev'.fetchTo # "none") => ev'.fetchTo = req[p].baseUrl
       /\ (req[p].pc = "fetch" /\ req'[p].pc = "idle") =>
            out'.sentTo = req[p].baseUrl
       /\ req[p].pc \in {"body", "fetch"} =>
            req[p].baseUrl = (IF req[p].usePrimary THEN PRIMARY ELSE SECONDARY)
       /\ ev'.p # p => req'[p] = req[p]]_vars

\* A retry goes to the primary although the flag has become false meanwhile.
C23_Witness ==
  /\ ev.type \in {"fetchThrew", "fetchAnswered"}
  /\ ev.delay > 0
  /\ ev.fetchTo = PRIMARY
  /\ req[ev.p].attempt = MAX_RETRIES
  /\ ~isPrimaryHealthy

\* C24 (health flag and counter agree): in every reachable state
\* isPrimaryHealthy is TRUE exactly when consecutiveFailures is 0.
C24_FlagAndCounterAgree ==
  isPrimaryHealthy <=> consecutiveFailures = 0

\* A probe that was in flight while a simulateDown request was handled
\* restores the healthy state.
C24_Witness ==
  /\ ev.type = "probeOk"
  /\ ev.sinceSet
  /\ isPrimaryHealthy
  /\ consecutiveFailures = 0
  /\ \E q \in Procs : q # ev.p /\ req[q].pc = "fetch" /\ ~req[q].usePrimary

\* C25 (monotonic health timestamps under races): no step decreases
\* backendSince or lastChecked, and once a check has run backendSince is at
\* most lastChecked.
C25_MonotonicTimestamps ==
  [][/\ backendSince' >= backendSince
     /\ lastChecked' >= lastChecked
     /\ lastChecked' > 0 => backendSince' =< lastChecked']_vars

\* C26 (single refresher): at most one health probe is in flight at any
\* time, and a proxied request that arrives while a probe is in flight is
\* answered from the cache and issues no probe.
C26_SingleRefresher ==
  /\ [](Cardinality({p \in Procs : req[p].pc = "probe"}) =< 1)
  /\ [][((\E q \in Procs : req[q].pc = "probe") /\ ev'.type \in {"cached", "probe"})
          => (ev'.type = "cached" /\ ~ev'.probe)]_vars

\* A request arrives in the instant in which another one has started the
\* probe after the expiry of the cache entry.
C26_Witness ==
  /\ ev.type = "cached"
  /\ ev.age = 0
  /\ \E q \in Procs : q # ev.p /\ req[q].pc = "probe" /\ req[q].now = now

C28_StickyFailover ==
  /\ ev.type = "simulateDown" => (~isPrimaryHealthy /\ lastChecked = now)
  /\ (ev.type \in {"cached", "probe"} /\ lastSim > 0
        /\ now - lastSim < HEALTH_CHECK_INTERVAL) =>
       /\ ev.type = "cached"
       /\ ev.ret = "false"
       /\ req[ev.p].baseUrl = SECONDARY

\* C29 (failure counting does not depend on the kind of failure): after k
\* failed probes in a row since the healthy state, all answered non-2xx or
\* all thrown, consecutiveFailures is k and isPrimaryHealthy is FALSE.
C29_FailureKindIndependent ==
  run.kind \in {"non2xx", "throw"} =>
    (consecutiveFailures = run.n /\ ~isPrimaryHealthy)

\* C30 (client failover tries each backend once): every call of
\* _fetchWithFallback makes at most as many attempts as there are backends,
\* no two of them against the same backend; a call that returned left
\* currentBackendIndex on the backend that answered; a call that threw
\* 'All backends failed' has tried every backend.
C30_ClientFailover ==
  \A c \in Callers :
    LET tried == calls[c].tried
    IN /\ Len(tried) =< Len(backends)
       /\ \A i, j \in 1..Len(tried) : i # j => tried[i] # tried[j]
       /\ calls[c].pc = "ok" => calls[c].left = tried[Len(tried)]
       /\ calls[c].pc = "failed" =>
            {tried[i] : i \in 1..Len(tried)} = {k - 1 : k \in 1..Len(backends)}

====
